---- MODULE Spec2Model ----
(***************************************************************************)
(* The code-review workflow of smart-code-review-langgraph-refactor:       *)
(* graph.py wires nine nodes into a LangGraph StateGraph over ReviewState; *)
(* the nodes under nodes/ return partial updates that the graph runtime    *)
(* merges at the end of each superstep.                                    *)
(*                                                                         *)
(* Numbers are fixed-point: security, PyLint and AI scores in hundredths   *)
(* (8.0 is 800, 0.8 is 80), coverage and documentation in tenths of a      *)
(* percent (80.0% is 800).  A mean is kept as the exact fraction           *)
(* [num, den]; a formatted string is a tuple of its parts, <<>> being the  *)
(* empty string and the empty dict.                                        *)
(***************************************************************************)
EXTENDS Integers, Sequences, FiniteSets, TLC

VARIABLES
    state,      \* the ReviewState channels held by the graph runtime
    config,     \* ConfigManager._config: the five thresholds, loaded once
    tasks,      \* nodes scheduled in the current superstep
    writes,     \* node -> partial update returned in the current superstep
    step,       \* number of the current superstep
    runs,       \* node -> how many times the node function has been called
    github,     \* what the hosting API answered: "pending", "ok" or "raise"
    emails      \* notification -> what its send did: "none" until it is tried

vars == <<state, config, tasks, writes, step, runs, github, emails>>

\* Largest number of files the hosting API lists for the pull request.
MaxFiles == 2

-----------------------------------------------------------------------------
(* config.py: DEFAULT_CONFIG thresholds *)

PYLINT_THRESHOLD == 700
COVERAGE_THRESHOLD == 800
AI_CONFIDENCE_THRESHOLD == 80
SECURITY_THRESHOLD == 800
DOCUMENTATION_THRESHOLD == 700

DEFAULT_CONFIG ==
    [ PYLINT_THRESHOLD        |-> PYLINT_THRESHOLD,
      COVERAGE_THRESHOLD      |-> COVERAGE_THRESHOLD,
      AI_CONFIDENCE_THRESHOLD |-> AI_CONFIDENCE_THRESHOLD,
      SECURITY_THRESHOLD      |-> SECURITY_THRESHOLD,
      DOCUMENTATION_THRESHOLD |-> DOCUMENTATION_THRESHOLD ]

\* ConfigManager._load_config: a threshold is the default unless the
\* environment or the .env file overrides it with another number.  The
\* overrides tried: a lower PyLint floor, a lower coverage floor, a higher
\* documentation floor.
LoadedConfigs ==
    [ PYLINT_THRESHOLD        : {PYLINT_THRESHOLD, 500},
      COVERAGE_THRESHOLD      : {COVERAGE_THRESHOLD, 700},
      AI_CONFIDENCE_THRESHOLD : {AI_CONFIDENCE_THRESHOLD},
      SECURITY_THRESHOLD      : {SECURITY_THRESHOLD},
      DOCUMENTATION_THRESHOLD : {DOCUMENTATION_THRESHOLD, 800} ]

\* get_config_value(key, default)
get_config_value(key, default) ==
    IF key \in DOMAIN config THEN config[key] ELSE default

-----------------------------------------------------------------------------
(* Node names and the graph of graph.py *)

END == "__end__"

AnalysisNodes == {"security", "quality", "coverage", "ai_review", "documentation"}

Nodes == {"pr_detector"} \cup AnalysisNodes \cup {"coordinator", "decision", "report"}

Outcomes == {"auto_approve", "human_review", "critical_escalation", "documentation_review"}

\* The keys whose channel has the merge_lists reducer (state.py, Annotated).
ReducerKeys == {"agents_completed", "emails_sent"}

\* state.py: merge_lists
merge_lists(existing, new) == existing \o new

\* graph.py: create_initial_state.  The review id, the owner, the name and the
\* timestamps are fixed tokens: one review is modelled.
create_initial_state(repo_owner, repo_name, pr_number) ==
    [ review_id             |-> <<"REV-", "date", "uuid">>,
      repo_owner            |-> repo_owner,
      repo_name             |-> repo_name,
      pr_number             |-> pr_number,
      timestamp             |-> "t0",
      pr_details            |-> <<>>,
      files_data            |-> <<>>,
      agents_completed      |-> <<>>,
      security_results      |-> <<>>,
      pylint_results        |-> <<>>,
      coverage_results      |-> <<>>,
      ai_reviews            |-> <<>>,
      documentation_results |-> <<>>,
      decision              |-> "",
      has_critical_issues   |-> FALSE,
      critical_reason       |-> <<>>,
      decision_metrics      |-> <<>>,
      report                |-> <<>>,
      emails_sent           |-> <<>>,
      error                 |-> <<>>,
      workflow_complete     |-> FALSE,
      updated_at            |-> "t0" ]

-----------------------------------------------------------------------------
(* The hosting API (services/github_client.py) *)

\* A source text is the tuple of its lines, <<>> being the empty text.  A
\* line is one of: "doc" (a docstring opening the module), "def_doc" (a public
\* function with a docstring), "def" (a public function without one), "eval"
\* (a call of eval), "pickle" (a call of pickle.loads), "syntax" (a line that
\* does not parse).
clean  == <<"doc", "def_doc", "def_doc", "def">>
risky  == <<"doc", "eval", "def">>
broken == <<"pickle", "pickle", "pickle", "pickle", "syntax">>

\* What _get_file_content can return: a text, or "" when the fetch of the
\* content failed.
Contents == {<<>>, clean, risky, broken}

\* The files of the pull request as the API lists them: each has a name (its
\* position and an extension) and a content.
ListedFiles ==
    UNION { [1..n -> [ext : {"py", "txt"}, content : Contents]] : n \in 0..MaxFiles }

\* GitHubClient.get_pr_files: only the .py files, in the listed order, each
\* with its content.
RECURSIVE get_pr_files(_, _)
get_pr_files(listed, i) ==
    IF i > Len(listed) THEN <<>>
    ELSE IF listed[i].ext # "py" THEN get_pr_files(listed, i + 1)
    ELSE << [filename |-> <<i, listed[i].ext>>, content |-> listed[i].content] >>
            \o get_pr_files(listed, i + 1)

\* GitHubClient.get_pr_details
get_pr_details(pr_number) == [pr_number |-> pr_number, title |-> "title", author |-> "author"]

-----------------------------------------------------------------------------
(* nodes/pr_detector_node.py *)

\* The filter of pr_detector_node: f.get('filename', '').endswith('.py')
python_files(files_data) == SelectSeq(files_data, LAMBDA f : f.filename[2] = "py")

\* pr_detector_node stamping the creation timestamp instead of updated_at.
pr_detector_success_restamping(st, listed) ==
    [ pr_details |-> get_pr_details(st.pr_number),
      files_data |-> python_files(get_pr_files(listed, 1)),
      timestamp  |-> "t_pr_detector" ]

\* The update pr_detector_node returns when both fetches succeed.
pr_detector_success(st, listed) ==
    [ pr_details |-> get_pr_details(st.pr_number),
      files_data |-> python_files(get_pr_files(listed, 1)),
      updated_at |-> "t_pr_detector" ]

\* pr_detector_node's except branch without the "error" key.
pr_detector_failure_silent(e) ==
    [ pr_details |-> <<>>,
      files_data |-> <<>> ]

\* The update pr_detector_node returns from its except branch.
pr_detector_failure(e) ==
    [ error      |-> <<"PR detection failed: ", e>>,
      pr_details |-> <<>>,
      files_data |-> <<>> ]

-----------------------------------------------------------------------------
(* The analyzer adapters (agents/): what one call can return for a file *)

Max(a, b) == IF a > b THEN a ELSE b

\* How many lines of the text are the given line.
Count(code, line) == Len(SelectSeq(code, LAMBDA l : l = line))

\* ast.parse(code) succeeds
parses(code) == Count(code, "syntax") = 0

\* SecurityAnalyzer.detect_vulnerabilities: every match of a HIGH pattern
\* takes 2.0 from 10.0, of a MEDIUM pattern 1.0, of a LOW pattern 0.5, and the
\* score is not below 0.0.
detect_vulnerabilities(code, filename) ==
    LET high   == Count(code, "eval")
        medium == Count(code, "pickle")
        low    == 0
    IN  { [ filename        |-> filename,
            security_score  |-> Max(0, 1000 - 200 * high - 100 * medium - 50 * low),
            vulnerabilities |-> high + medium + low,
            severity_counts |-> [HIGH |-> high, MEDIUM |-> medium, LOW |-> low] ] }

\* PylintAnalyzer.analyze_code: the rating PyLint prints with the issues it
\* lists, or _default_result (5.0, no issue) when PyLint fails or times out.
analyze_code(code, filename) ==
    { [filename |-> filename, score |-> 700, total_issues |-> 3],
      [filename |-> filename, score |-> 500, total_issues |-> 0] }

\* CoverageAnalyzer.analyze_coverage: the 70.0 baseline, or _default_result
\* (0.0) when the text does not parse.
analyze_coverage(code, filename) ==
    { [filename |-> filename, coverage_percent |-> IF parses(code) THEN 700 ELSE 0] }

\* GeminiClient.review_code: the score parsed from the answer, or
\* _default_result (0.5) when the model is unavailable or raises.  The context
\* goes into the prompt, so the answer kept in raw_response is an answer to it.
review_code(code, filename, context) ==
    { [filename |-> filename, overall_score |-> 80,
       raw_response |-> <<"answer", context>>],
      [filename |-> filename, overall_score |-> 50,
       raw_response |-> <<"Error: ">>] }

\* DocumentationAnalyzer.analyze_documentation: documented / total * 100 over
\* the module and its public functions, or _default_result (0.0) when the
\* text does not parse.
analyze_documentation(code, filename) ==
    LET total_items      == 1 + Count(code, "def_doc") + Count(code, "def")
        documented_items == (IF code[1] = "doc" THEN 1 ELSE 0) + Count(code, "def_doc")
    IN  { [ filename               |-> filename,
            documentation_coverage |->
                IF parses(code) THEN (documented_items * 1000) \div total_items ELSE 0 ] }

-----------------------------------------------------------------------------
(* The analysis nodes (nodes/*_node.py) *)

\* The loop run over the file set twice.
with_content_twice(files_data) ==
    SelectSeq(files_data \o files_data, LAMBDA f : f.content # <<>>)

\* The loop of every analysis node: the files whose content is not empty,
\* in order.
with_content(files_data) == SelectSeq(files_data, LAMBDA f : f.content # <<>>)

\* The loop appending each record at the front of its list instead of the end.
analyze_each_prepending(per_file) ==
    LET n == Len(per_file)
    IN  { r \in [DOMAIN per_file -> UNION { per_file[i] : i \in DOMAIN per_file }] :
            \A i \in DOMAIN per_file : r[i] \in per_file[n + 1 - i] }

\* The result lists the loop can build: one adapter record per file with
\* content, in file order; per_file[i] is what the adapter can return for
\* the i-th such file.
analyze_each(per_file) ==
    { r \in [DOMAIN per_file -> UNION { per_file[i] : i \in DOMAIN per_file }] :
        \A i \in DOMAIN per_file : r[i] \in per_file[i] }

RECURSIVE SumOf(_, _)
\* sum(r.get(key, 0) for r in results)
SumOf(results, key) ==
    IF results = <<>> THEN 0
    ELSE (IF key \in DOMAIN results[1] THEN results[1][key] ELSE 0)
         + SumOf(Tail(results), key)

\* sum(...) / len(results), as the exact fraction
Mean(results, key) == [num |-> SumOf(results, key), den |-> Len(results)]

\* The nearest whole number of units to num / den (round and the format
\* specs .1f and .2f; they differ from it on exact ties only).
Round(num, den) == (2 * num + den) \div (2 * den)

\* _build_context reading the lists as the other nodes of the superstep have
\* left them so far, as it would on a state the nodes share and write into.
_build_context_shared(st) ==
    LET seen(node, key) ==
            IF node \in DOMAIN writes THEN writes[node][key] ELSE st[key]
        security == seen("security", "security_results")
        pylint   == seen("quality", "pylint_results")
        coverage == seen("coverage", "coverage_results")
    IN  [ security |-> IF security # <<>>
                       THEN << SumOf(security, "vulnerabilities") >> ELSE <<>>,
          quality  |-> IF pylint # <<>>
                       THEN << Round(SumOf(pylint, "score"), Len(pylint)) >> ELSE <<>>,
          coverage |-> IF coverage # <<>>
                       THEN << Round(SumOf(coverage, "coverage_percent"), Len(coverage)) >>
                       ELSE <<>> ]

\* nodes/ai_review_node.py: _build_context
_build_context(st) ==
    [ security |-> IF st.security_results # <<>>
                   THEN << SumOf(st.security_results, "vulnerabilities") >> ELSE <<>>,
      quality  |-> IF st.pylint_results # <<>>
                   THEN << Round(SumOf(st.pylint_results, "score"), Len(st.pylint_results)) >>
                   ELSE <<>>,
      coverage |-> IF st.coverage_results # <<>>
                   THEN << Round(SumOf(st.coverage_results, "coverage_percent"),
                                 Len(st.coverage_results)) >>
                   ELSE <<>> ]

\* security_analysis_node recording its own completion in its update.
security_node_marking_completion(st) ==
    IF st.files_data = <<>>
    THEN { [security_results |-> <<>>, agents_completed |-> <<"security">>] }
    ELSE LET fs == with_content(st.files_data)
         IN  { [security_results |-> r, agents_completed |-> <<"security">>] :
                 r \in analyze_each([i \in 1..Len(fs) |->
                          detect_vulnerabilities(fs[i].content, fs[i].filename)]) }

security_analysis_node(st) ==
    IF st.files_data = <<>> THEN { [security_results |-> <<>>] }
    ELSE LET fs == with_content(st.files_data)
         IN  { [security_results |-> r] :
                 r \in analyze_each([i \in 1..Len(fs) |->
                          detect_vulnerabilities(fs[i].content, fs[i].filename)]) }

quality_analysis_node(st) ==
    IF st.files_data = <<>> THEN { [pylint_results |-> <<>>] }
    ELSE LET fs == with_content(st.files_data)
         IN  { [pylint_results |-> r] :
                 r \in analyze_each([i \in 1..Len(fs) |->
                          analyze_code(fs[i].content, fs[i].filename)]) }

\* coverage_analysis_node handing back the file set without the files it
\* skipped.
coverage_node_pruning_files(st) ==
    IF st.files_data = <<>> THEN { [coverage_results |-> <<>>] }
    ELSE LET fs == with_content(st.files_data)
         IN  { [coverage_results |-> r, files_data |-> fs] :
                 r \in analyze_each([i \in 1..Len(fs) |->
                          analyze_coverage(fs[i].content, fs[i].filename)]) }

coverage_analysis_node(st) ==
    IF st.files_data = <<>> THEN { [coverage_results |-> <<>>] }
    ELSE LET fs == with_content(st.files_data)
         IN  { [coverage_results |-> r] :
                 r \in analyze_each([i \in 1..Len(fs) |->
                          analyze_coverage(fs[i].content, fs[i].filename)]) }

ai_review_node(st) ==
    IF st.files_data = <<>> THEN { [ai_reviews |-> <<>>] }
    ELSE LET fs      == with_content(st.files_data)
             context == _build_context(st)
         IN  { [ai_reviews |-> r] :
                 r \in analyze_each([i \in 1..Len(fs) |->
                          review_code(fs[i].content, fs[i].filename, context)]) }

\* documentation_analysis_node leaving out the files that do not parse.
documentation_node_skipping_unparsed(st) ==
    IF st.files_data = <<>> THEN { [documentation_results |-> <<>>] }
    ELSE LET fs == SelectSeq(st.files_data, LAMBDA f : f.content # <<>> /\ parses(f.content))
         IN  { [documentation_results |-> r] :
                 r \in analyze_each([i \in 1..Len(fs) |->
                          analyze_documentation(fs[i].content, fs[i].filename)]) }

documentation_analysis_node(st) ==
    IF st.files_data = <<>> THEN { [documentation_results |-> <<>>] }
    ELSE LET fs == with_content(st.files_data)
         IN  { [documentation_results |-> r] :
                 r \in analyze_each([i \in 1..Len(fs) |->
                          analyze_documentation(fs[i].content, fs[i].filename)]) }

-----------------------------------------------------------------------------
(* nodes/coordinator_node.py *)

\* The names _calculate_summary_metrics appends to analyses_completed, in
\* its order.
analyses_completed(st) ==
    (IF st.security_results # <<>> THEN <<"security">> ELSE <<>>)
    \o (IF st.pylint_results # <<>> THEN <<"quality">> ELSE <<>>)
    \o (IF st.coverage_results # <<>> THEN <<"coverage">> ELSE <<>>)
    \o (IF st.ai_reviews # <<>> THEN <<"ai_review">> ELSE <<>>)
    \o (IF st.documentation_results # <<>> THEN <<"documentation">> ELSE <<>>)

\* An average of the summary that is 0 for an empty list instead of absent.
summary_average_or_zero(results, key) ==
    IF results # <<>> THEN << Round(SumOf(results, key), Len(results)) >> ELSE << 0 >>

\* One average of the summary: present only for a non-empty list, rounded
\* (round(avg, 2) keeps the hundredths, round(avg, 1) the tenths of a percent).
summary_average(results, key) ==
    IF results # <<>> THEN << Round(SumOf(results, key), Len(results)) >> ELSE <<>>

_calculate_summary_metrics(st) ==
    [ total_files_analyzed |-> Len(st.files_data),
      analyses_completed   |-> analyses_completed(st),
      avg_security_score   |-> summary_average(st.security_results, "security_score"),
      avg_quality_score    |-> summary_average(st.pylint_results, "score"),
      avg_coverage         |-> summary_average(st.coverage_results, "coverage_percent"),
      avg_ai_score         |-> summary_average(st.ai_reviews, "overall_score"),
      avg_documentation    |-> summary_average(st.documentation_results,
                                               "documentation_coverage") ]

\* coordinator_node handing the security results on as consumed: its update
\* empties the list it has summarised.
coordinator_node_consuming(st) ==
    [ coordination_summary |-> _calculate_summary_metrics(st),
      security_results     |-> <<>>,
      updated_at           |-> "t_coordinator" ]

coordinator_node(st) ==
    [ coordination_summary |-> _calculate_summary_metrics(st),
      updated_at           |-> "t_coordinator" ]

-----------------------------------------------------------------------------
(* nodes/decision_node.py *)

\* metric with an empty list counted as a full score instead of as 0.
metric_full_when_empty(results, key) ==
    IF results # <<>> THEN Mean(results, key) ELSE [num |-> 1000, den |-> 1]

\* A metric of _calculate_decision_metrics: 0.0 unless the list is non-empty.
metric(results, key) ==
    IF results # <<>> THEN Mean(results, key) ELSE [num |-> 0, den |-> 1]

RECURSIVE high_severity(_)
\* sum(r.get("severity_counts", {}).get("HIGH", 0) for r in security_results)
high_severity(results) ==
    IF results = <<>> THEN 0
    ELSE (IF "severity_counts" \in DOMAIN results[1]
          THEN results[1].severity_counts.HIGH ELSE 0)
         + high_severity(Tail(results))

\* _calculate_decision_metrics with the PyLint mean taken over the files of
\* the pull request instead of over the PyLint records.
metrics_per_listed_file(st) ==
    [ security_score         |-> metric(st.security_results, "security_score"),
      pylint_score           |-> [num |-> SumOf(st.pylint_results, "score"),
                                  den |-> Max(1, Len(st.files_data))],
      coverage               |-> metric(st.coverage_results, "coverage_percent"),
      ai_score               |-> metric(st.ai_reviews, "overall_score"),
      documentation_coverage |-> metric(st.documentation_results, "documentation_coverage"),
      high_severity_issues   |-> high_severity(st.security_results) ]

_calculate_decision_metrics(st) ==
    [ security_score         |-> metric(st.security_results, "security_score"),
      pylint_score           |-> metric(st.pylint_results, "score"),
      coverage               |-> metric(st.coverage_results, "coverage_percent"),
      ai_score               |-> metric(st.ai_reviews, "overall_score"),
      documentation_coverage |-> metric(st.documentation_results, "documentation_coverage"),
      high_severity_issues   |-> high_severity(st.security_results) ]

\* m < threshold, for a mean m
Below(m, threshold) == m.num < threshold * m.den

has_critical_security(metrics) ==
    \/ Below(metrics.security_score, get_config_value("SECURITY_THRESHOLD", SECURITY_THRESHOLD))
    \/ metrics.high_severity_issues > 0

has_quality_issues(metrics) ==
    \/ Below(metrics.pylint_score, get_config_value("PYLINT_THRESHOLD", PYLINT_THRESHOLD))
    \/ Below(metrics.coverage, get_config_value("COVERAGE_THRESHOLD", COVERAGE_THRESHOLD))
    \/ Below(metrics.ai_score,
             get_config_value("AI_CONFIDENCE_THRESHOLD", AI_CONFIDENCE_THRESHOLD))

has_doc_issues(metrics) ==
    Below(metrics.documentation_coverage,
          get_config_value("DOCUMENTATION_THRESHOLD", DOCUMENTATION_THRESHOLD))

\* The chain of decision_node with its first two branches exchanged: the
\* quality floors tested before the security floor.
decide_quality_first(metrics) ==
    IF has_quality_issues(metrics) THEN "human_review"
    ELSE IF has_critical_security(metrics) THEN "critical_escalation"
    ELSE IF has_doc_issues(metrics) THEN "documentation_review"
    ELSE "auto_approve"

\* The if / elif chain that sets decision.
decide(metrics) ==
    IF has_critical_security(metrics) THEN "critical_escalation"
    ELSE IF has_quality_issues(metrics) THEN "human_review"
    ELSE IF has_doc_issues(metrics) THEN "documentation_review"
    ELSE "auto_approve"

\* has_critical_issues set in the first two branches only.
critical_flag_without_documentation(metrics) ==
    IF has_critical_security(metrics) THEN TRUE
    ELSE IF has_quality_issues(metrics) THEN TRUE
    ELSE FALSE

\* has_critical_issues: set in each of the three branches.
critical_flag(metrics) ==
    IF has_critical_security(metrics) THEN TRUE
    ELSE IF has_quality_issues(metrics) THEN TRUE
    ELSE IF has_doc_issues(metrics) THEN TRUE
    ELSE FALSE

\* The inner chain of the human_review branch with coverage tested before the
\* PyLint score.
quality_reason_coverage_first(metrics) ==
    LET pylint == get_config_value("PYLINT_THRESHOLD", PYLINT_THRESHOLD)
        cov    == get_config_value("COVERAGE_THRESHOLD", COVERAGE_THRESHOLD)
        ai     == get_config_value("AI_CONFIDENCE_THRESHOLD", AI_CONFIDENCE_THRESHOLD)
    IN  IF Below(metrics.coverage, cov)
        THEN << "Test coverage too low: ",
                Round(metrics.coverage.num, metrics.coverage.den), "% < ", cov >>
        ELSE IF Below(metrics.pylint_score, pylint)
        THEN << "PyLint score too low: ",
                Round(metrics.pylint_score.num, metrics.pylint_score.den), " < ", pylint >>
        ELSE IF Below(metrics.ai_score, ai)
        THEN << "AI confidence too low: ",
                Round(metrics.ai_score.num, metrics.ai_score.den), " < ", ai >>
        ELSE <<>>

\* The inner if / elif chain of the human_review branch.
quality_reason(metrics) ==
    LET pylint == get_config_value("PYLINT_THRESHOLD", PYLINT_THRESHOLD)
        cov    == get_config_value("COVERAGE_THRESHOLD", COVERAGE_THRESHOLD)
        ai     == get_config_value("AI_CONFIDENCE_THRESHOLD", AI_CONFIDENCE_THRESHOLD)
    IN  IF Below(metrics.pylint_score, pylint)
        THEN << "PyLint score too low: ",
                Round(metrics.pylint_score.num, metrics.pylint_score.den), " < ", pylint >>
        ELSE IF Below(metrics.coverage, cov)
        THEN << "Test coverage too low: ",
                Round(metrics.coverage.num, metrics.coverage.den), "% < ", cov >>
        ELSE IF Below(metrics.ai_score, ai)
        THEN << "AI confidence too low: ",
                Round(metrics.ai_score.num, metrics.ai_score.den), " < ", ai >>
        ELSE <<>>

\* critical_reason: the f-string of the branch taken, "" when none is.
critical_reason(metrics) ==
    IF has_critical_security(metrics)
    THEN << "Security issues: Score ",
            Round(metrics.security_score.num, 10 * metrics.security_score.den), "/",
            get_config_value("SECURITY_THRESHOLD", SECURITY_THRESHOLD), " or ",
            metrics.high_severity_issues, " high severity vulnerabilities" >>
    ELSE IF has_quality_issues(metrics) THEN quality_reason(metrics)
    ELSE IF has_doc_issues(metrics)
    THEN << "Documentation coverage too low: ",
            Round(metrics.documentation_coverage.num, metrics.documentation_coverage.den),
            "% < ", get_config_value("DOCUMENTATION_THRESHOLD", DOCUMENTATION_THRESHOLD) >>
    ELSE <<>>

decision_node(st) ==
    LET metrics == _calculate_decision_metrics(st)
    IN  [ decision            |-> decide(metrics),
          has_critical_issues |-> critical_flag(metrics),
          critical_reason     |-> critical_reason(metrics),
          decision_metrics    |-> metrics ]

-----------------------------------------------------------------------------
(* nodes/report_node.py *)

\* metrics.get(key, default) < floor: the default never is below the floor.
metric_below(metrics, key, floor) ==
    IF key \in DOMAIN metrics THEN Below(metrics[key], floor) ELSE FALSE

\* decision.replace("_", " ").upper()
recommendation(decision) ==
    CASE decision = "auto_approve"         -> "AUTO APPROVE"
      [] decision = "human_review"         -> "HUMAN REVIEW"
      [] decision = "critical_escalation"  -> "CRITICAL ESCALATION"
      [] decision = "documentation_review" -> "DOCUMENTATION REVIEW"
      [] OTHER                             -> decision

_generate_key_findings(st, reason) ==
    (IF reason # <<>> THEN << reason >> ELSE << <<"All quality thresholds met">> >>)
    \o (IF st.security_results # <<>> /\ SumOf(st.security_results, "vulnerabilities") > 0
        THEN << <<"Found ", SumOf(st.security_results, "vulnerabilities"),
                  " security vulnerabilities">> >>
        ELSE <<>>)
    \o (IF st.pylint_results # <<>> /\ SumOf(st.pylint_results, "total_issues") > 0
        THEN << <<"Found ", SumOf(st.pylint_results, "total_issues"),
                  " code quality issues">> >>
        ELSE <<>>)

\* _generate_action_items without the coverage item of the human_review
\* branch.
action_items_without_coverage(st, decision, metrics) ==
    IF decision = "critical_escalation"
    THEN << "Address critical security vulnerabilities immediately",
            "Follow security best practices" >>
    ELSE IF decision = "human_review"
    THEN (IF metric_below(metrics, "pylint_score", 700)
          THEN <<"Address code quality issues flagged by PyLint">> ELSE <<>>)
         \o (IF metric_below(metrics, "ai_score", 80)
             THEN <<"Review AI suggestions for improvements">> ELSE <<>>)
    ELSE IF decision = "documentation_review"
    THEN <<"Add missing documentation to functions and classes">>
    ELSE <<"Ready for merge">>

\* The floors 7.0, 80.0 and 0.8 of the human_review branch are literals.
_generate_action_items(st, decision, metrics) ==
    IF decision = "critical_escalation"
    THEN << "Address critical security vulnerabilities immediately",
            "Follow security best practices" >>
    ELSE IF decision = "human_review"
    THEN (IF metric_below(metrics, "pylint_score", 700)
          THEN <<"Address code quality issues flagged by PyLint">> ELSE <<>>)
         \o (IF metric_below(metrics, "coverage", 800)
             THEN <<"Improve test coverage">> ELSE <<>>)
         \o (IF metric_below(metrics, "ai_score", 80)
             THEN <<"Review AI suggestions for improvements">> ELSE <<>>)
    ELSE IF decision = "documentation_review"
    THEN <<"Add missing documentation to functions and classes">>
    ELSE <<"Ready for merge">>

_generate_approval_criteria(metrics) ==
    LET criteria ==
          (IF metric_below(metrics, "security_score",
                           get_config_value("SECURITY_THRESHOLD", SECURITY_THRESHOLD))
           THEN <<"Security score must be at least the threshold">> ELSE <<>>)
          \o (IF "high_severity_issues" \in DOMAIN metrics /\ metrics.high_severity_issues > 0
              THEN <<"All high-severity vulnerabilities must be addressed">> ELSE <<>>)
          \o (IF metric_below(metrics, "pylint_score",
                              get_config_value("PYLINT_THRESHOLD", PYLINT_THRESHOLD))
              THEN <<"PyLint score must be at least the threshold">> ELSE <<>>)
          \o (IF metric_below(metrics, "coverage",
                              get_config_value("COVERAGE_THRESHOLD", COVERAGE_THRESHOLD))
              THEN <<"Test coverage must be at least the threshold">> ELSE <<>>)
          \o (IF metric_below(metrics, "ai_score",
                              get_config_value("AI_CONFIDENCE_THRESHOLD",
                                               AI_CONFIDENCE_THRESHOLD))
              THEN <<"AI-identified issues must be resolved">> ELSE <<>>)
          \o (IF metric_below(metrics, "documentation_coverage",
                              get_config_value("DOCUMENTATION_THRESHOLD",
                                               DOCUMENTATION_THRESHOLD))
              THEN <<"Documentation coverage must be at least the threshold">> ELSE <<>>)
    IN  IF criteria = <<>> THEN <<"All quality thresholds are met">> ELSE criteria

\* report_node returning the decision with its report, as the recommendation
\* it printed.
report_node_rewriting_decision(st) ==
    [ report |->
        [ decision          |-> st.decision,
          recommendation    |-> recommendation(st.decision),
          priority          |-> IF st.has_critical_issues THEN "HIGH" ELSE "MEDIUM",
          metrics           |-> st.decision_metrics,
          key_findings      |-> _generate_key_findings(st, st.critical_reason),
          action_items      |-> _generate_action_items(st, st.decision, st.decision_metrics),
          approval_criteria |-> _generate_approval_criteria(st.decision_metrics) ],
      decision   |-> recommendation(st.decision),
      updated_at |-> "t_report" ]

\* report_node marking the workflow complete and recording the email it sent.
report_node_completing(st) ==
    [ report |->
        [ decision          |-> st.decision,
          recommendation    |-> recommendation(st.decision),
          priority          |-> IF st.has_critical_issues THEN "HIGH" ELSE "MEDIUM",
          metrics           |-> st.decision_metrics,
          key_findings      |-> _generate_key_findings(st, st.critical_reason),
          action_items      |-> _generate_action_items(st, st.decision, st.decision_metrics),
          approval_criteria |-> _generate_approval_criteria(st.decision_metrics) ],
      emails_sent       |-> << "final_report" >>,
      workflow_complete |-> TRUE,
      updated_at        |-> "t_report" ]

report_node(st) ==
    [ report |->
        [ decision          |-> st.decision,
          recommendation    |-> recommendation(st.decision),
          priority          |-> IF st.has_critical_issues THEN "HIGH" ELSE "MEDIUM",
          metrics           |-> st.decision_metrics,
          key_findings      |-> _generate_key_findings(st, st.critical_reason),
          action_items      |-> _generate_action_items(st, st.decision, st.decision_metrics),
          approval_criteria |-> _generate_approval_criteria(st.decision_metrics) ],
      updated_at |-> "t_report" ]

-----------------------------------------------------------------------------
(* graph.py: routing *)

\* route_after_pr_detection with "documentation" left out of the returned list.
route_without_documentation(st) ==
    IF st.error # <<>> THEN {END}
    ELSE IF st.files_data = <<>> THEN {END}
    ELSE {"security", "quality", "coverage", "ai_review"}

\* route_after_pr_detection without its check for an empty file set.
route_without_empty_check(st) ==
    IF st.error # <<>> THEN {END}
    ELSE {"security", "quality", "coverage", "ai_review", "documentation"}

\* route_after_pr_detection sending an empty file set on to decision.
route_empty_to_decision(st) ==
    IF st.error # <<>> THEN {END}
    ELSE IF st.files_data = <<>> THEN {"decision"}
    ELSE {"security", "quality", "coverage", "ai_review", "documentation"}

\* route_after_pr_detection sending a failed detection back to pr_detector.
route_retry_on_error(st) ==
    IF st.error # <<>> THEN {"pr_detector"}
    ELSE IF st.files_data = <<>> THEN {END}
    ELSE {"security", "quality", "coverage", "ai_review", "documentation"}

route_after_pr_detection(st) ==
    IF st.error # <<>> THEN {END}
    ELSE IF st.files_data = <<>> THEN {END}
    ELSE {"security", "quality", "coverage", "ai_review", "documentation"}

\* route_after_coordination ending the workflow when an analysis is missing.
route_incomplete_to_end(st) ==
    LET completed == { analyses_completed(st)[i] : i \in 1..Len(analyses_completed(st)) }
    IN  IF AnalysisNodes \subseteq completed THEN {"decision"} ELSE {END}

\* Both branches of route_after_coordination return "decision".
route_after_coordination(st) ==
    LET completed == { analyses_completed(st)[i] : i \in 1..Len(analyses_completed(st)) }
    IN  IF AnalysisNodes \subseteq completed THEN {"decision"} ELSE {"decision"}

\* create_review_workflow with the edge of "quality" added to "decision"
\* instead of "coordinator".
edges_quality_to_decision(node, st) ==
    CASE node = "pr_detector"    -> route_after_pr_detection(st)
      [] node = "quality"        -> {"decision"}
      [] node \in AnalysisNodes \ {"quality"} -> {"coordinator"}
      [] node = "coordinator"    -> route_after_coordination(st)
      [] node = "decision"       -> {"report"}
      [] node = "report"         -> {END}

\* edges with the decision stage wired to the end of the graph instead of to
\* the report stage.
edges_decision_to_end(node, st) ==
    CASE node = "pr_detector"    -> route_after_pr_detection(st)
      [] node \in AnalysisNodes  -> {"coordinator"}
      [] node = "coordinator"    -> route_after_coordination(st)
      [] node = "decision"       -> {END}
      [] node = "report"         -> {END}

\* create_review_workflow: where each node's edges lead, given the state the
\* node's routing function sees.
edges(node, st) ==
    CASE node = "pr_detector"    -> route_after_pr_detection(st)
      [] node \in AnalysisNodes  -> {"coordinator"}
      [] node = "coordinator"    -> route_after_coordination(st)
      [] node = "decision"       -> {"report"}
      [] node = "report"         -> {END}

-----------------------------------------------------------------------------
(* The compiled graph (workflow.compile(), workflow.invoke) *)

\* One partial update merged into the state: a key of the schema with a
\* reducer is reduced, any other key of the schema is overwritten, and a key
\* that is not in the schema has no channel.
merge(st, update) ==
    [ k \in DOMAIN st |->
        IF k \notin DOMAIN update THEN st[k]
        ELSE IF k \in ReducerKeys THEN merge_lists(st[k], update[k])
        ELSE update[k] ]

RECURSIVE apply_writes(_, _, _)
\* Every update of the superstep merged, one node after the other.
apply_writes(st, w, nodes) ==
    IF nodes = {} THEN st
    ELSE LET n == CHOOSE x \in nodes : TRUE
         IN  apply_writes(merge(st, w[n]), w, nodes \ {n})

\* The nodes of the next superstep: where the edges of the nodes that ran
\* lead, each routing function reading the state with its node's update.
next_tasks(st, w) ==
    UNION { edges(n, merge(st, w[n])) : n \in DOMAIN w } \ {END}

\* A node scheduled in this superstep that has not been called yet.
Runnable(node) == node \in tasks /\ node \notin DOMAIN writes

\* A node function returns its update; the runtime holds it until the
\* superstep ends.
Return(node, update) ==
    /\ Runnable(node)
    /\ writes' = (node :> update) @@ writes
    /\ runs' = [runs EXCEPT ![node] = @ + 1]
    /\ UNCHANGED <<state, config, tasks, step>>

\* services/email_service.py: what a send can do. send_email returns True,
\* or False when the service is not configured or the SMTP exchange fails;
\* "raise" is an exception that escapes the service.
SendOutcomes == {"sent", "false", "raise"}

\* The notification block with its try / except removed: an exception of
\* the send leaves the node through the handler that builds the error update.
send_unguarded(outcome, update) ==
    IF outcome = "raise" THEN pr_detector_failure("email") ELSE update

\* The notification block with the rest of the node made to depend on the
\* send: the update keeps its business data only when the mail went out.
send_required(outcome, update) ==
    IF outcome = "sent" THEN update ELSE [updated_at |-> update.updated_at]

\* The notification block of pr_detector_node and of report_node: the value
\* the send returns is dropped, an exception is caught and logged, and the
\* node goes on to return the update it had built.
send_guarded(outcome, update) == update

PrDetector ==
    /\ github = "pending"
    /\ \/ \E listed \in ListedFiles, outcome \in SendOutcomes :
            /\ github' = "ok"
            /\ emails' = [emails EXCEPT !.started = outcome]
            /\ Return("pr_detector",
                      send_guarded(outcome, pr_detector_success(state, listed)))
       \/ /\ github' = "raise"
          /\ UNCHANGED emails
          /\ Return("pr_detector", pr_detector_failure("error"))

Security ==
    /\ Runnable("security")
    /\ \E u \in security_analysis_node(state) : Return("security", u)
    /\ UNCHANGED <<github, emails>>

Quality ==
    /\ Runnable("quality")
    /\ \E u \in quality_analysis_node(state) : Return("quality", u)
    /\ UNCHANGED <<github, emails>>

Coverage ==
    /\ Runnable("coverage")
    /\ \E u \in coverage_analysis_node(state) : Return("coverage", u)
    /\ UNCHANGED <<github, emails>>

AiReview ==
    /\ Runnable("ai_review")
    /\ \E u \in ai_review_node(state) : Return("ai_review", u)
    /\ UNCHANGED <<github, emails>>

Documentation ==
    /\ Runnable("documentation")
    /\ \E u \in documentation_analysis_node(state) : Return("documentation", u)
    /\ UNCHANGED <<github, emails>>

Coordinator ==
    /\ Return("coordinator", coordinator_node(state))
    /\ UNCHANGED <<github, emails>>

Decision ==
    /\ Return("decision", decision_node(state))
    /\ UNCHANGED <<github, emails>>

Report ==
    /\ \E outcome \in SendOutcomes :
         /\ emails' = [emails EXCEPT !.final = outcome]
         /\ Return("report", send_guarded(outcome, report_node(state)))
    /\ UNCHANGED github

\* The end of a superstep: every scheduled node has returned; the updates are
\* merged and the successors scheduled.
Superstep ==
    /\ tasks # {}
    /\ DOMAIN writes = tasks
    /\ state' = apply_writes(state, writes, DOMAIN writes)
    /\ tasks' = next_tasks(state, writes)
    /\ writes' = <<>>
    /\ step' = step + 1
    /\ UNCHANGED <<config, runs, github, emails>>

Init ==
    /\ state = create_initial_state("owner", "repo", 1)
    /\ config \in LoadedConfigs
    /\ tasks = {"pr_detector"}
    /\ writes = <<>>
    /\ step = 1
    /\ runs = [n \in Nodes |-> 0]
    /\ github = "pending"
    /\ emails = [started |-> "none", final |-> "none"]

Next ==
    \/ PrDetector
    \/ Security
    \/ Quality
    \/ Coverage
    \/ AiReview
    \/ Documentation
    \/ Coordinator
    \/ Decision
    \/ Report
    \/ Superstep

Spec == Init /\ [][Next]_vars

\* The workflow has ended: invoke returns the state.
Done == tasks = {}

\* workflow.invoke runs the graph to its end in the caller's thread: a node
\* that is scheduled is called, and a superstep whose nodes have all returned
\* is closed.
FairSpec == Spec /\ WF_vars(Next)

------------------------------------------------------------------------\* The five result lists of a state.
ResultKeys ==
    {"security_results", "pylint_results", "coverage_results", "ai_reviews",
     "documentation_results"}

-----
(* coordinator_node called on its own, as tests.py calls the nodes: on a
   state whose five result lists are filled independently of each other. *)

\* Largest number of records in a result list of such a state.
MaxResults == 2

\* The metric of the records of each result list.
primary_metric(key) ==
    CASE key = "security_results"      -> "security_score"
      [] key = "pylint_results"        -> "score"
      [] key = "coverage_results"      -> "coverage_percent"
      [] key = "ai_reviews"            -> "overall_score"
      [] key = "documentation_results" -> "documentation_coverage"

\* Records the adapter of a result list returns: those of a file that parses
\* and of one that does not.
SampleRecords(key) ==
    UNION { CASE key = "security_results"      -> detect_vulnerabilities(c, "a.py")
              [] key = "pylint_results"        -> analyze_code(c, "a.py")
              [] key = "coverage_results"      -> analyze_coverage(c, "a.py")
              [] key = "ai_reviews"            -> review_code(c, "a.py", <<>>)
              [] key = "documentation_results" -> analyze_documentation(c, "a.py")
            : c \in {clean, broken} }

\* The result lists of up to MaxResults such records, the better records
\* first.
SampleLists(key) ==
    { r \in UNION { [1..n -> SampleRecords(key)] : n \in 0..MaxResults } :
        \A i \in 1..(Len(r) - 1) :
            r[i][primary_metric(key)] >= r[i + 1][primary_metric(key)] }

\* The file sets of such a state.
SampleFiles == { <<>>, << [filename |-> "a.py", content |-> clean] >> }

CoordinatorInit ==
    /\ \E security \in SampleLists("security_results"),
          pylint \in SampleLists("pylint_results"),
          coverage \in SampleLists("coverage_results"),
          ai \in SampleLists("ai_reviews"),
          documentation \in SampleLists("documentation_results"),
          files \in SampleFiles :
         state = [ create_initial_state("owner", "repo", 1) EXCEPT
                     !.files_data            = files,
                     !.security_results      = security,
                     !.pylint_results        = pylint,
                     !.coverage_results      = coverage,
                     !.ai_reviews            = ai,
                     !.documentation_results = documentation ]
    /\ config = DEFAULT_CONFIG
    /\ tasks = {"coordinator"}
    /\ writes = <<>>
    /\ step = 1
    /\ runs = [n \in Nodes |-> 0]
    /\ github = "ok"
    /\ emails = [started |-> "none", final |-> "none"]

\* One call of coordinator_node on the state, its update merged into the
\* state as the runtime merges it; the caller keeps what the last call
\* returned.
CallCoordinator ==
    /\ runs["coordinator"] < 2
    /\ writes' = [n \in {"coordinator"} |-> coordinator_node(state)]
    /\ state' = merge(state, coordinator_node(state))
    /\ runs' = [runs EXCEPT !["coordinator"] = @ + 1]
    /\ UNCHANGED <<config, tasks, step, github, emails>>

CoordinatorNext == CallCoordinator

CoordinatorSpec == CoordinatorInit /\ [][CoordinatorNext]_vars

-----------------------------------------------------------------------------
(* decision_node after coordinator_node, on lists of any content: the lists
   are filled independently of each other, as in the harness above, and the
   configuration is one of those the process may have loaded. *)

\* The records above, and for PyLint also a rating one hundredth under the
\* default floor (PylintAnalyzer._parse_pylint_output keeps whatever rating
\* PyLint prints).
DecisionRecords(key) ==
    SampleRecords(key)
      \cup IF key = "pylint_results"
           THEN { [filename |-> "a.py", score |-> PYLINT_THRESHOLD - 1, total_issues |-> 1] }
           ELSE {}

\* The result lists of up to MaxResults such records, the better records
\* first.
DecisionLists(key) ==
    { r \in UNION { [1..n -> DecisionRecords(key)] : n \in 0..MaxResults } :
        \A i \in 1..(Len(r) - 1) :
            r[i][primary_metric(key)] >= r[i + 1][primary_metric(key)] }

\* The configurations of such a state: the defaults, and the coverage floor
\* lowered to the baseline CoverageAnalyzer reports.
DecisionConfigs ==
    { c \in LoadedConfigs : /\ c.PYLINT_THRESHOLD = PYLINT_THRESHOLD
                            /\ c.DOCUMENTATION_THRESHOLD = DOCUMENTATION_THRESHOLD }

DecisionInit ==
    /\ \E security \in DecisionLists("security_results"),
          pylint \in DecisionLists("pylint_results"),
          coverage \in DecisionLists("coverage_results"),
          ai \in DecisionLists("ai_reviews"),
          documentation \in DecisionLists("documentation_results") :
         state = [ create_initial_state("owner", "repo", 1) EXCEPT
                     !.files_data            = << [filename |-> "a.py", content |-> clean] >>,
                     !.security_results      = security,
                     !.pylint_results        = pylint,
                     !.coverage_results      = coverage,
                     !.ai_reviews            = ai,
                     !.documentation_results = documentation ]
    /\ config \in DecisionConfigs
    /\ tasks = {"coordinator"}
    /\ writes = <<>>
    /\ step = 1
    /\ runs = [n \in Nodes |-> 0]
    /\ github = "ok"
    /\ emails = [started |-> "none", final |-> "none"]

\* The call of coordinator_node that precedes the decision.
CallCoordinatorOnce ==
    /\ runs["coordinator"] = 0
    /\ CallCoordinator

\* The call of decision_node on the state the coordinator's update was merged
\* into, its own update merged in turn; the caller keeps both returns.
CallDecision ==
    /\ runs["coordinator"] = 1
    /\ runs["decision"] = 0
    /\ writes' = [n \in {"coordinator", "decision"} |->
                    IF n = "decision" THEN decision_node(state) ELSE writes[n]]
    /\ state' = merge(state, decision_node(state))
    /\ runs' = [runs EXCEPT !["decision"] = 1]
    /\ UNCHANGED <<config, tasks, step, github, emails>>

DecisionNext == CallCoordinatorOnce \/ CallDecision

DecisionSpec == DecisionInit /\ [][DecisionNext]_vars

-----------------------------------------------------------------------------
(* Properties *)

\* The detection stage has returned and its update has been merged.
Detected == step > 1

\* C1: in a review whose detection succeeds with a non-empty file set, each
\* of the five analysis nodes has been called exactly once when the workflow
\* has ended, and none is ever called twice.
C1_EachAnalysisOnce ==
    /\ \A n \in AnalysisNodes : runs[n] <= 1
    /\ (Done /\ github = "ok" /\ state.files_data # <<>>)
         => \A n \in AnalysisNodes : runs[n] = 1

\* C1 witness: a review with a fetched, non-empty file set has ended.
C1_Witness ==
    /\ Done /\ github = "ok" /\ state.files_data # <<>>
    /\ \A n \in AnalysisNodes : runs[n] = 1

\* C2: coordinator and decision are scheduled only when each of the five
\* analysis nodes has returned and its update has been merged, and decision
\* only when coordinator, which runs once, has returned too.
C2_JoinBeforeDecide ==
    /\ \A n \in {"coordinator", "decision"} :
         (n \in tasks \/ runs[n] > 0)
           => \A a \in AnalysisNodes : runs[a] = 1 /\ a \notin tasks
    /\ ("decision" \in tasks \/ runs["decision"] > 0)
         => runs["coordinator"] = 1 /\ "coordinator" \notin tasks
    /\ runs["coordinator"] <= 1

\* C2 witness: decision has been called, during its own superstep.
C2_Witness ==
    /\ runs["decision"] = 1 /\ "decision" \in DOMAIN writes
    /\ \A a \in AnalysisNodes : runs[a] = 1

\* C3: when the hosting client raises, the message is in the error field,
\* the file set is empty, and the workflow ends after pr_detector: no other
\* node is ever scheduled or called.
C3_DetectionFailureEnds ==
    github = "raise" =>
        /\ \A n \in Nodes \ {"pr_detector"} : runs[n] = 0 /\ n \notin tasks
        /\ Detected => /\ Done
                       /\ state.error # <<>>
                       /\ state.files_data = <<>>

\* C3 witness: a review whose detection failed has ended.
C3_Witness == github = "raise" /\ Done /\ state.error # <<>>

\* C4: when detection succeeds with an empty file set, the workflow ends
\* after pr_detector: the five result lists are empty, no analysis is recorded
\* as completed, and coordinator, decision and report are never called.
C4_EmptyFileSetEnds ==
    (github = "ok" /\ Detected /\ state.files_data = <<>>) =>
        /\ Done
        /\ \A k \in ResultKeys : state[k] = <<>>
        /\ state.agents_completed = <<>>
        /\ \A n \in Nodes \ {"pr_detector"} : runs[n] = 0
        /\ state.decision = "" /\ state.report = <<>>

\* C4 witness: a review whose detection fetched no Python file has ended.
C4_Witness == github = "ok" /\ Done /\ state.files_data = <<>> /\ state.error = <<>>

\* C5: whenever coordinator is scheduled or has been called, at least one of
\* the five result lists is non-empty.
C5_CoordinateHasResults ==
    ("coordinator" \in tasks \/ runs["coordinator"] > 0)
      => \E k \in ResultKeys : state[k] # <<>>

\* The decision node has been called.
Decided == runs["decision"] > 0

\* What the decision node returned: its update while the runtime holds it,
\* the four fields of the state once the update is merged.
DecisionOutput ==
    IF "decision" \in DOMAIN writes THEN writes["decision"]
    ELSE [ decision            |-> state.decision,
           has_critical_issues |-> state.has_critical_issues,
           critical_reason     |-> state.critical_reason,
           decision_metrics    |-> state.decision_metrics ]

\* The review was short-circuited after pr_detector.
ShortCircuited == github = "raise" \/ (github = "ok" /\ state.files_data = <<>>)

\* C6 as stated: in every final state the decision field is one of the four
\* outcomes.
C6_FinalDecisionIsOutcome == Done => state.decision \in Outcomes

\* C6, amended: the final decision is one of the four outcomes when detection
\* succeeded with a non-empty file set, and is still the empty string of
\* create_initial_state when the review was short-circuited.
C6_FinalDecisionUnlessShortCircuit ==
    Done => IF ShortCircuited THEN state.decision = ""
            ELSE state.decision \in Outcomes

\* C6 witness: a review that was not short-circuited has ended with an outcome.
C6_Witness == Done /\ ~ShortCircuited /\ state.decision \in Outcomes

\* C7: the outcome is that of the first matching rule, in the order security,
\* quality, documentation, with strict comparisons against the configured
\* floors: failing security gives critical_escalation whatever else fails,
\* and a mean equal to its floor does not fail.
C7_FirstMatchingRule ==
    Decided =>
      LET o    == DecisionOutput
          m    == o.decision_metrics
          sec  == \/ m.security_score.num < config.SECURITY_THRESHOLD * m.security_score.den
                  \/ m.high_severity_issues > 0
          qual == \/ m.pylint_score.num < config.PYLINT_THRESHOLD * m.pylint_score.den
                  \/ m.coverage.num < config.COVERAGE_THRESHOLD * m.coverage.den
                  \/ m.ai_score.num < config.AI_CONFIDENCE_THRESHOLD * m.ai_score.den
          doc  == m.documentation_coverage.num
                    < config.DOCUMENTATION_THRESHOLD * m.documentation_coverage.den
      IN  /\ o.decision = "critical_escalation"  <=> sec
          /\ o.decision = "human_review"         <=> ~sec /\ qual
          /\ o.decision = "documentation_review" <=> ~sec /\ ~qual /\ doc
          /\ o.decision = "auto_approve"         <=> ~sec /\ ~qual /\ ~doc

\* C7 witness: critical_escalation for metrics that fail the security rule
\* and the PyLint floor, with the coverage mean equal to its floor.
C7_Witness ==
    /\ Decided
    /\ DecisionOutput.decision = "critical_escalation"
    /\ Below(DecisionOutput.decision_metrics.pylint_score, config.PYLINT_THRESHOLD)
    /\ DecisionOutput.decision_metrics.coverage.num
         = config.COVERAGE_THRESHOLD * DecisionOutput.decision_metrics.coverage.den

\* The sub-condition a human_review reason cites: the text its reason string
\* starts with.
Cited(reason) == IF reason = <<>> THEN "" ELSE reason[1]

\* C8: for human_review the reason is one message, that of the first failing
\* sub-condition in the order PyLint score, coverage, AI score.
C8_FirstFailingSubCondition ==
    (Decided /\ DecisionOutput.decision = "human_review") =>
      LET o == DecisionOutput
          m == o.decision_metrics
          q == m.pylint_score.num < config.PYLINT_THRESHOLD * m.pylint_score.den
          c == m.coverage.num < config.COVERAGE_THRESHOLD * m.coverage.den
      IN  /\ Len(o.critical_reason) = 4
          /\ Cited(o.critical_reason)
               = IF q THEN "PyLint score too low: "
                 ELSE IF c THEN "Test coverage too low: "
                 ELSE "AI confidence too low: "
          /\ o.critical_reason[4]
               = IF q THEN config.PYLINT_THRESHOLD
                 ELSE IF c THEN config.COVERAGE_THRESHOLD
                 ELSE config.AI_CONFIDENCE_THRESHOLD

\* C8 witness: human_review with the PyLint and the coverage floor both
\* failing, the PyLint score cited.
C8_Witness ==
    /\ Decided
    /\ DecisionOutput.decision = "human_review"
    /\ Below(DecisionOutput.decision_metrics.pylint_score, config.PYLINT_THRESHOLD)
    /\ Below(DecisionOutput.decision_metrics.coverage, config.COVERAGE_THRESHOLD)
    /\ Cited(DecisionOutput.critical_reason) = "PyLint score too low: "

\* C9: the update of the decision node has exactly the four fields, its flag
\* is true exactly when the outcome is not auto_approve, and its reason is
\* non-empty exactly when the flag is true.
C9_OutputShape ==
    /\ "decision" \in DOMAIN writes
         => DOMAIN writes["decision"]
              = {"decision", "has_critical_issues", "critical_reason", "decision_metrics"}
    /\ Decided =>
         /\ DecisionOutput.decision \in Outcomes
         /\ DecisionOutput.has_critical_issues <=> DecisionOutput.decision # "auto_approve"
         /\ DecisionOutput.critical_reason # <<>> <=> DecisionOutput.has_critical_issues

\* C9 witness: one review has returned documentation_review with the flag
\* set, its update not merged yet.
C9_Witness ==
    /\ "decision" \in DOMAIN writes
    /\ writes["decision"].decision = "documentation_review"
    /\ writes["decision"].has_critical_issues
    /\ writes["decision"].critical_reason # <<>>

\* A state of another review that has the five result lists of this one.
SameLists ==
    [ k \in DOMAIN state |->
        IF k \in ResultKeys THEN state[k]
        ELSE create_initial_state("other", "other", 2)[k] ]

\* C10: what the decision node returned is what it returns again, now or
\* after the later nodes have run, for any state with the same five result
\* lists under the same thresholds; and the call that returns it leaves the
\* state and the configuration as they were.
C10_Deterministic ==
    /\ [](Decided => /\ DecisionOutput = decision_node(state)
                     /\ DecisionOutput = decision_node(SameLists))
    /\ [][runs'["decision"] # runs["decision"] => state' = state /\ config' = config]_vars

\* C10 witness: the report node has run after the decision node, in a review
\* where a file without content left fewer records than files.
C10_Witness ==
    /\ Decided /\ Done
    /\ state.report # <<>>
    /\ state.pylint_results # <<>>
    /\ Len(state.pylint_results) < Len(state.files_data)

\* Some fetched file has the given content.
HasFile(content) ==
    \E i \in 1..Len(state.files_data) : state.files_data[i].content = content

\* C11: every execution of the workflow reaches done, where invoke returns
\* the state, whatever the hosting API, the analyzers and the sends do.
C11_EventuallyDone == <>Done

\* C11 witness: a review has ended in which one file had no content, another
\* made the parsing analyzers fall back to their default record, the first
\* send raised and the second returned false.
C11_Witness ==
    /\ Done
    /\ HasFile(<<>>) /\ HasFile(broken)
    /\ emails = [started |-> "raise", final |-> "false"]
    /\ state.report # <<>>

\* C12: what the nodes that notify return, and so the decision and the
\* report the review ends with, is fixed by the fetched files and the
\* analysis results alone: it is the same for each of the three outcomes of
\* each send, and a review that is not short-circuited ends with its
\* decision and its report whatever the sends did.
C12_NotificationIndependent ==
    /\ []( /\ ("pr_detector" \in DOMAIN writes /\ github = "ok")
                => \E listed \in ListedFiles :
                     writes["pr_detector"] = pr_detector_success(state, listed)
           /\ "report" \in DOMAIN writes => writes["report"] = report_node(state)
           /\ state.report # <<>> => state.report = report_node(state).report
           /\ Decided => DecisionOutput = decision_node(state)
           /\ (Done /\ ~ShortCircuited)
                => state.decision \in Outcomes /\ state.report # <<>> )
    /\ [][emails' # emails => \/ "pr_detector" \in DOMAIN writes'
                              \/ "report" \in DOMAIN writes']_vars

\* C12 witness: a review has ended with its decision and report although the
\* first send returned false and the second raised.
C12_Witness ==
    /\ Done
    /\ emails = [started |-> "false", final |-> "raise"]
    /\ state.decision \in Outcomes
    /\ state.report # <<>>
    /\ state.report.decision = state.decision

\* C13: the error field is non-empty exactly when the fetch of pr_detector
\* raised and its update has been merged; no other node returns an error key,
\* whatever the analyzers and the sends did.
C13_ErrorOnlyFromDetection ==
    /\ state.error # <<>> <=> (github = "raise" /\ Detected)
    /\ \A n \in DOMAIN writes :
         "error" \in DOMAIN writes[n] => n = "pr_detector" /\ github = "raise"

\* C13 witness: a review has ended without error although the coverage
\* analyzer fell back to its default record for a file and both sends failed.
C13_Witness ==
    /\ Done /\ github = "ok"
    /\ state.error = <<>>
    /\ \E i \in 1..Len(state.coverage_results) :
         state.coverage_results[i].coverage_percent = 0
    /\ emails = [started |-> "raise", final |-> "raise"]

\* The result list each analysis node returns.
result_key(node) ==
    CASE node = "security"      -> "security_results"
      [] node = "quality"       -> "pylint_results"
      [] node = "coverage"      -> "coverage_results"
      [] node = "ai_review"     -> "ai_reviews"
      [] node = "documentation" -> "documentation_results"

\* The filenames of a list of records or of files, in order.
Filenames(records) == [i \in 1..Len(records) |-> records[i].filename]

\* The result list of an analysis node that has returned: in its update
\* until the superstep ends, in the state afterwards.
Returned(node) ==
    IF node \in DOMAIN writes THEN writes[node][result_key(node)]
    ELSE state[result_key(node)]

\* C14: the list a stage runner returns has one record for each file whose
\* content is not empty and none for a file whose content is empty, in the
\* order of the file set.
C14_ImageOfFilesWithContent ==
    \A n \in AnalysisNodes :
        runs[n] > 0 =>
            Filenames(Returned(n))
              = Filenames(SelectSeq(state.files_data, LAMBDA f : f.content # <<>>))

\* C14 witness: the security node has returned one record, that of the
\* second file, for a file set whose first file has no content.
C14_Witness ==
    /\ "security" \in DOMAIN writes
    /\ Len(state.files_data) = 2
    /\ state.files_data[1].content = <<>>
    /\ state.files_data[2].content # <<>>
    /\ Filenames(writes["security"].security_results) = << state.files_data[2].filename >>

\* C15: the update of an analysis node has its own result list as its only
\* key, so the completion list and the completion flag of the state are
\* never written.
C15_OwnListOnly ==
    /\ \A n \in AnalysisNodes \cap DOMAIN writes : DOMAIN writes[n] = { result_key(n) }
    /\ state.agents_completed = <<>>
    /\ state.workflow_complete = FALSE

\* C15 witness: the five analysis nodes have returned, each a non-empty
\* list, and their updates are not merged yet.
C15_Witness ==
    /\ AnalysisNodes \subseteq DOMAIN writes
    /\ \A n \in AnalysisNodes : writes[n][result_key(n)] # <<>>
    /\ \A k \in ResultKeys : state[k] = <<>>

\* The entries of the summary that belong to each result list: its average
\* and the name it is listed under as completed.
summary_entry(key) ==
    CASE key = "security_results"      -> [avg |-> "avg_security_score", name |-> "security"]
      [] key = "pylint_results"        -> [avg |-> "avg_quality_score", name |-> "quality"]
      [] key = "coverage_results"      -> [avg |-> "avg_coverage", name |-> "coverage"]
      [] key = "ai_reviews"            -> [avg |-> "avg_ai_score", name |-> "ai_review"]
      [] key = "documentation_results" -> [avg |-> "avg_documentation", name |-> "documentation"]

\* The summary the last call of coordinator_node returned.
Summary == writes["coordinator"].coordination_summary

\* C16: for any of the five lists being empty or not, the summary has the
\* rounded mean of a list's own records exactly when the list is not empty,
\* no entry (not 0) when it is, and lists as completed exactly the analyses
\* whose list is not empty.
C16_SummaryOfNonEmptyLists ==
    "coordinator" \in DOMAIN writes =>
        /\ \A k \in ResultKeys :
             Summary[summary_entry(k).avg]
               = IF state[k] = <<>> THEN <<>>
                 ELSE << Round(SumOf(state[k], primary_metric(k)), Len(state[k])) >>
        /\ { Summary.analyses_completed[i] : i \in 1..Len(Summary.analyses_completed) }
             = { summary_entry(k).name : k \in { x \in ResultKeys : state[x] # <<>> } }
        /\ Len(Summary.analyses_completed)
             = Cardinality({ x \in ResultKeys : state[x] # <<>> })

\* C16 witness: a summary of two non-empty lists out of five, the security
\* list with two different scores.
C16_Witness ==
    /\ "coordinator" \in DOMAIN writes
    /\ { k \in ResultKeys : state[k] # <<>> } = {"security_results", "coverage_results"}
    /\ Len(state.security_results) = 2
    /\ state.security_results[1].security_score # state.security_results[2].security_score
    /\ Summary.avg_quality_score = <<>>
    /\ Summary.analyses_completed = <<"security", "coverage">>

\* C17: a second call of coordinator_node, on the state the first call's
\* update was merged into, returns the summary the first call returned; and
\* no call changes the five result lists or the file set.
C17_CoordinatorIdempotent ==
    [][runs'["coordinator"] # runs["coordinator"] =>
         /\ \A k \in ResultKeys \cup {"files_data"} : state'[k] = state[k]
         /\ "coordinator" \in DOMAIN writes
              => writes'["coordinator"].coordination_summary = Summary]_vars

\* C17 witness: coordinator_node has been called twice on lists that are not
\* all empty.
C17_Witness ==
    /\ runs["coordinator"] = 2
    /\ state.pylint_results # <<>>
    /\ state.ai_reviews = <<>>
    /\ Summary.avg_quality_score # <<>>

\* C18: each of the five result lists, in the state and in an update not
\* merged yet, is at most as long as the file set.
C18_ListsWithinFileSet ==
    /\ \A k \in ResultKeys : Len(state[k]) <= Len(state.files_data)
    /\ \A n \in AnalysisNodes \cap DOMAIN writes :
         Len(writes[n][result_key(n)]) <= Len(state.files_data)

\* C18 witness: the five lists are merged, each as long as the file set of
\* two files.
C18_Witness ==
    /\ Len(state.files_data) = 2
    /\ \A k \in ResultKeys : Len(state[k]) = 2

\* C19: when the decision field is not empty, coordinator has run, and it ran
\* after the five analysis nodes had each returned and their lists were
\* merged: its summary is that of the merged lists. A short-circuited review
\* keeps the four decision fields as create_initial_state set them.
C19_DecisionAfterCoordination ==
    /\ state.decision # ""
         => /\ runs["coordinator"] = 1 /\ "coordinator" \notin DOMAIN writes
            /\ \A a \in AnalysisNodes : runs[a] = 1
            /\ ~ShortCircuited
    /\ "coordinator" \in DOMAIN writes
         => /\ \A a \in AnalysisNodes : runs[a] = 1 /\ a \notin DOMAIN writes
            /\ Summary.analyses_completed = analyses_completed(state)
            /\ state.decision = ""
    /\ ShortCircuited
         => /\ state.decision = ""
            /\ state.has_critical_issues = FALSE
            /\ state.critical_reason = <<>>
            /\ state.decision_metrics = <<>>
            /\ runs["decision"] = 0

\* C19 witness: the decision has just been merged, after coordinator and
\* the five analysis nodes ran once each; report has not run yet.
C19_Witness ==
    /\ state.decision \in Outcomes
    /\ state.decision_metrics # <<>>
    /\ runs["coordinator"] = 1
    /\ \A a \in AnalysisNodes : runs[a] = 1
    /\ runs["report"] = 0

\* The four decision fields of the state.
DecisionKeys == {"decision", "has_critical_issues", "critical_reason", "decision_metrics"}

\* C20: the decision node runs at most once; only its update carries the
\* four decision fields; they change in one step only, the merge of that
\* update, and once the decision is set no step changes any of them.
C20_DecisionWrittenOnce ==
    /\ []( /\ runs["decision"] <= 1
           /\ \A n \in DOMAIN writes \ {"decision"} :
                DOMAIN writes[n] \cap DecisionKeys = {} )
    /\ [][ /\ (\E k \in DecisionKeys : state'[k] # state[k])
                => "decision" \in DOMAIN writes /\ state.decision = "" /\ step' = step + 1
           /\ state.decision # ""
                => \A k \in DecisionKeys : state'[k] = state[k] ]_vars

\* C20 witness: the review has ended after the report was merged, with the
\* decision the decision node's single run set.
C20_Witness ==
    /\ Done
    /\ runs["decision"] = 1 /\ runs["report"] = 1
    /\ state.report # <<>>
    /\ state.decision = "critical_escalation"
    /\ state.has_critical_issues

\* The fields the detection stage fills.
DetectionKeys == {"files_data", "pr_details"}

\* C21: only the update of pr_detector has the file set or the PR metadata
\* among its keys, and no step but the merge of that update changes them: the
\* five analysis nodes, called in one superstep, read one file set.
C21_FileSetWrittenByDetection ==
    /\ []( \A n \in DOMAIN writes \ {"pr_detector"} :
              DOMAIN writes[n] \cap DetectionKeys = {} )
    /\ [][ (\E k \in DetectionKeys : state'[k] # state[k])
              => "pr_detector" \in DOMAIN writes /\ step = 1 ]_vars

\* C21 witness: the review has ended with the file set and the metadata
\* the detection stage fetched, after the analyses skipped one of its files.
C21_Witness ==
    /\ Done
    /\ state.pr_details # <<>>
    /\ Len(state.files_data) = 2
    /\ Len(state.coverage_results) = 1
    /\ state.report # <<>>

\* The identity fields of a review.
IdentityKeys == {"review_id", "repo_owner", "repo_name", "pr_number", "timestamp"}

\* C22: create_initial_state gives the state the caller's owner, name and PR
\* number and a review id that starts with "REV-"; the review's state has
\* them from the start, and no step changes an identity field.
C22_IdentityImmutable ==
    /\ []( /\ \A o \in {"owner", "other"}, n \in {"repo", "other"}, p \in {1, 2} :
                LET st == create_initial_state(o, n, p)
                IN  /\ st.repo_owner = o /\ st.repo_name = n /\ st.pr_number = p
                    /\ st.review_id[1] = "REV-"
           /\ state.repo_owner = "owner" /\ state.repo_name = "repo"
           /\ state.pr_number = 1
           /\ state.review_id[1] = "REV-" )
    /\ [][ \A k \in IdentityKeys : state'[k] = state[k] ]_vars

\* C22 witness: a review has run through report and ended with the identity
\* fields it was created with, its update stamp moved on.
C22_Witness ==
    /\ Done
    /\ runs["report"] = 1
    /\ state.updated_at = "t_report"
    /\ \A k \in IdentityKeys : state[k] = create_initial_state("owner", "repo", 1)[k]

\* The updates an analysis node can return for a state.
analysis_updates(node, st) ==
    CASE node = "security"      -> security_analysis_node(st)
      [] node = "quality"       -> quality_analysis_node(st)
      [] node = "coverage"      -> coverage_analysis_node(st)
      [] node = "ai_review"     -> ai_review_node(st)
      [] node = "documentation" -> documentation_analysis_node(st)

\* A state that has the file set of this review and nothing else of it.
FileSetOnly ==
    [ create_initial_state("owner", "repo", 1) EXCEPT !.files_data = state.files_data ]

\* C23: whichever analysis nodes have returned before it, the list an
\* analysis node returns is one it can return for the file set alone, with
\* every other result list empty; this holds for ai_review too, whose context
\* is built from the lists of the state the superstep started with. The
\* lists coordinator then reads are those the nodes returned.
C23_AnalysesIndependent ==
    /\ []( \A n \in AnalysisNodes :
              runs[n] > 0
                => [ k \in {result_key(n)} |-> Returned(n) ]
                     \in analysis_updates(n, FileSetOnly) )
    /\ [][ (step' # step /\ AnalysisNodes \subseteq DOMAIN writes)
              => /\ \A n \in AnalysisNodes :
                      state'[result_key(n)] = writes[n][result_key(n)]
                 /\ tasks' = {"coordinator"} ]_vars

\* C23 witness: ai_review has returned an answer of the model after
\* security, quality and coverage had returned non-empty lists in the same
\* superstep.
C23_Witness ==
    /\ {"security", "quality", "coverage", "ai_review"} \subseteq DOMAIN writes
    /\ writes["security"].security_results # <<>>
    /\ writes["quality"].pylint_results # <<>>
    /\ writes["coverage"].coverage_results # <<>>
    /\ writes["ai_review"].ai_reviews # <<>>
    /\ writes["ai_review"].ai_reviews[1].overall_score = 80

\* C24: once the update of coordinator is merged, the state has the
\* coordinator's summary of its five lists and file set, and keeps it.
C24_SummaryInState ==
    (runs["coordinator"] > 0 /\ "coordinator" \notin DOMAIN writes)
      => /\ "coordination_summary" \in DOMAIN state
         /\ state.coordination_summary = _calculate_summary_metrics(state)

\* The metric of the decision that belongs to each result list.
metric_key(key) ==
    CASE key = "security_results"      -> "security_score"
      [] key = "pylint_results"        -> "pylint_score"
      [] key = "coverage_results"      -> "coverage"
      [] key = "ai_reviews"            -> "ai_score"
      [] key = "documentation_results" -> "documentation_coverage"

\* The metrics a decision taken from the coordinator's summary classifies:
\* the per-stage averages of the summary, and the count of high-severity
\* issues, which the summary does not have, as the decide stage counts it.
summary_metrics ==
    [ security_score         |-> [num |-> Summary.avg_security_score[1], den |-> 1],
      pylint_score           |-> [num |-> Summary.avg_quality_score[1], den |-> 1],
      coverage               |-> [num |-> Summary.avg_coverage[1], den |-> 1],
      ai_score               |-> [num |-> Summary.avg_ai_score[1], den |-> 1],
      documentation_coverage |-> [num |-> Summary.avg_documentation[1], den |-> 1],
      high_severity_issues   |-> writes["decision"].decision_metrics.high_severity_issues ]

\* C25: once the decide stage has returned for five lists none of which is
\* empty (the summary has no average for an empty one), each mean metric it
\* classified is the value of the average in the coordinator's summary for
\* that list, and the outcome is the one the rules give on the summary's
\* averages.
C25_DecisionFromSummary ==
    ("decision" \in DOMAIN writes /\ \A k \in ResultKeys : state[k] # <<>>) =>
        /\ \A k \in ResultKeys :
             LET m == writes["decision"].decision_metrics[metric_key(k)]
             IN  Summary[summary_entry(k).avg][1] * m.den = m.num
        /\ decide(summary_metrics) = writes["decision"].decision

\* C26: route_after_coordination names the decide stage for the state of the
\* coordinate stage with any of the five result lists emptied, and the
\* superstep that ends the coordinate stage schedules decide alone, the one
\* that ends decide schedules report alone, and the one that ends report
\* schedules nothing.
C26_CoordinateDecideReport ==
    /\ []( tasks = {"coordinator"} =>
             \A E \in SUBSET ResultKeys :
                 route_after_coordination([ k \in DOMAIN state |->
                                              IF k \in E THEN <<>> ELSE state[k] ])
                   = {"decision"} )
    /\ [][ step' # step =>
             /\ tasks = {"coordinator"} => tasks' = {"decision"}
             /\ tasks = {"decision"} => tasks' = {"report"}
             /\ tasks = {"report"} => tasks' = {} ]_vars

\* C26 witness: a review whose five lists were all empty at coordinate has
\* run through decide and report and is done.
C26_Witness ==
    /\ Done
    /\ state.files_data # <<>>
    /\ \A k \in ResultKeys : state[k] = <<>>
    /\ runs["coordinator"] = 1
    /\ runs["decision"] = 1
    /\ runs["report"] = 1
    /\ state.report # <<>>

\* C27: once the decide stage has returned, under thresholds all greater
\* than 0, the metric of each empty list is 0 and the high-severity count of
\* an empty security list is 0; the outcome is not auto_approve when any of
\* the five lists is empty, and is critical_escalation when the security list
\* is empty.
C27_EmptyListCountsAsZero ==
    "decision" \in DOMAIN writes =>
        LET update == writes["decision"]
            empty  == { k \in ResultKeys : state[k] = <<>> }
        IN  /\ \A t \in DOMAIN config : config[t] > 0
            /\ \A k \in empty : update.decision_metrics[metric_key(k)] = [num |-> 0, den |-> 1]
            /\ "security_results" \in empty => update.decision_metrics.high_severity_issues = 0
            /\ empty # {} => update.decision # "auto_approve"
            /\ "security_results" \in empty => update.decision = "critical_escalation"

\* C27 witness: the decide stage has returned documentation_review for a
\* state whose documentation list alone is empty, and whose other lists meet
\* their thresholds.
C27_Witness ==
    /\ "decision" \in DOMAIN writes
    /\ { k \in ResultKeys : state[k] = <<>> } = {"documentation_results"}
    /\ writes["decision"].decision = "documentation_review"
    /\ writes["decision"].decision_metrics.documentation_coverage.num = 0

\* C28: from the superstep of the coordinate stage on, the five result lists
\* have one length, the number of files of the file set whose content is not
\* empty, and the records at each position of the five lists name one file.
C28_ListsAligned ==
    (tasks = {"coordinator"} \/ runs["coordinator"] > 0) =>
        /\ \A k \in ResultKeys :
             Len(state[k]) = Cardinality({ i \in 1..Len(state.files_data) :
                                            state.files_data[i].content # <<>> })
        /\ \A k \in ResultKeys :
             /\ Len(state[k]) = Len(state.security_results)
             /\ \A i \in 1..Len(state[k]) :
                  state[k][i].filename = state.security_results[i].filename

\* C28 witness: the coordinate stage has run on five lists of one record
\* each, for a file set of two files of which one has no content and the
\* other does not parse.
C28_Witness ==
    /\ runs["coordinator"] = 1
    /\ Len(state.files_data) = 2
    /\ \E i \in 1..2 : state.files_data[i].content = <<>>
    /\ \E i \in 1..2 : state.files_data[i].content # <<>> /\ ~parses(state.files_data[i].content)
    /\ \A k \in ResultKeys : Len(state[k]) = 1

\* C29: the report the report stage returns has at least one action item;
\* and for the metrics of any decision taken, the action items of each of the
\* four outcomes are at least one, so that whichever outcome the configured
\* thresholds select, the literal floors 7.0, 80.0 and 0.8 leave an item.
C29_ActionItemsNonEmpty ==
    /\ "report" \in DOMAIN writes => Len(writes["report"].report.action_items) >= 1
    /\ state.report # <<>> => Len(state.report.action_items) >= 1
    /\ state.decision \in Outcomes =>
         \A d \in Outcomes :
             Len(_generate_action_items(state, d, state.decision_metrics)) >= 1

\* C29 witness: a report of a human_review taken under a coverage floor
\* lowered to 70.0, for metrics that meet the configured PyLint and coverage
\* floors: its action items are those of the literal floors.
C29_Witness ==
    /\ Done
    /\ state.report # <<>>
    /\ state.report.decision = "human_review"
    /\ config.COVERAGE_THRESHOLD = 700
    /\ ~Below(state.decision_metrics.pylint_score, config.PYLINT_THRESHOLD)
    /\ ~Below(state.decision_metrics.coverage, config.COVERAGE_THRESHOLD)
    /\ state.report.action_items
         = << "Improve test coverage", "Review AI suggestions for improvements" >>

\* The control fields of the state.
ControlKeys == {"workflow_complete", "agents_completed", "emails_sent"}

====
